---- MODULE Spec2Model ----
(***************************************************************************)
(* A model of src/index.py: the sales-record cleaning pipeline             *)
(* (load_data, clean_data, hypothesis_testing, visualize_data, main).      *)
(*                                                                         *)
(* Text is a sequence of one-character strings, so that strip, lower and   *)
(* title are computed character by character as Python computes them.     *)
(* A number is a decimal m * 10^(-e) in lowest form (e = 0 or m not a      *)
(* multiple of ten), which is exact for every literal the inputs hold.     *)
(***************************************************************************)
EXTENDS Integers, Sequences, FiniteSets, TLC

VARIABLES
    pc,               \* position of main(): start, loaded, cleaned, ... , done, crashed
    file,             \* what is stored at file_path: its status and its sheet
    replaceDowncasts, \* whether this pandas build lets Series.replace downcast an all-NaN object column
    df,               \* the variable df of main(): None or the table
    out,              \* the lines printed so far
    testsRun,         \* the hypothesis tests started
    charts,           \* the figures shown
    snapshot,         \* the table clean_data returned first (re-cleaning harness)
    arg,              \* cell-level harness: the raw cell value
    argTok,           \* cell-level harness: the token the raw text was built from
    argPadded,        \* cell-level harness: whether whitespace was put around the token
    fn,               \* cell-level harness: the column step applied, "none" before
    res,              \* cell-level harness: the cleaned cell
    grp               \* cell-level harness: the derived Age Group of the cleaned cell

vars == <<pc, file, replaceDowncasts, df, out, testsRun, charts, snapshot,
          arg, argTok, argPadded, fn, res, grp>>

(***************************************************************************)
(* Bounds of the model.                                                    *)
(***************************************************************************)
MaxRows == 2
MaxPad == 1

(***************************************************************************)
(* Values of a cell.                                                       *)
(***************************************************************************)
Str(s) == [t |-> "str", s |-> s, m |-> 0, e |-> 0]
Num(m, e) == [t |-> "num", s |-> <<>>, m |-> m, e |-> e]
Date(m, e) == [t |-> "date", s |-> <<>>, m |-> m, e |-> e]
NaN == [t |-> "nan", s |-> <<>>, m |-> 0, e |-> 0]
Absent == [t |-> "absent", s |-> <<>>, m |-> 0, e |-> 0]
None == [t |-> "None"]

\* pd.isna(x) on a scalar
isna(v) == v.t = "nan"

(***************************************************************************)
(* Python str methods.                                                     *)
(***************************************************************************)
LowerLetters == <<"a","b","c","d","e","f","g","h","i","j","k","l","m",
                  "n","o","p","q","r","s","t","u","v","w","x","y","z">>
UpperLetters == <<"A","B","C","D","E","F","G","H","I","J","K","L","M",
                  "N","O","P","Q","R","S","T","U","V","W","X","Y","Z">>
Digits == <<"0","1","2","3","4","5","6","7","8","9">>
Whitespace == {" ", "\t", "\n"}

IndexIn(c, seq) ==
    IF \E i \in 1..Len(seq) : seq[i] = c
    THEN CHOOSE i \in 1..Len(seq) : seq[i] = c
    ELSE 0

LowerChar(c) ==
    LET i == IndexIn(c, UpperLetters) IN IF i > 0 THEN LowerLetters[i] ELSE c

UpperChar(c) ==
    LET i == IndexIn(c, LowerLetters) IN IF i > 0 THEN UpperLetters[i] ELSE c

IsCased(c) == IndexIn(c, LowerLetters) > 0 \/ IndexIn(c, UpperLetters) > 0
IsDigit(c) == IndexIn(c, Digits) > 0

\* A sequence given by a rule, written out element by element.
Tuple(f) == f \o <<>>

\* str.lower()
str_lower(s) == Tuple([i \in 1..Len(s) |-> LowerChar(s[i])])

RECURSIVE LStrip(_)
LStrip(s) == IF s # <<>> /\ Head(s) \in Whitespace THEN LStrip(Tail(s)) ELSE s

RECURSIVE RStrip(_)
RStrip(s) ==
    IF s # <<>> /\ s[Len(s)] \in Whitespace
    THEN RStrip(SubSeq(s, 1, Len(s) - 1))
    ELSE s

\* str.strip()
str_strip(s) == RStrip(LStrip(s))

\* str.title(): a cased character is upper-cased after an uncased one (or at
\* the start) and lower-cased after a cased one.
str_title(s) ==
    Tuple([i \in 1..Len(s) |->
        IF i = 1 \/ ~IsCased(s[i - 1]) THEN UpperChar(s[i]) ELSE LowerChar(s[i])])

(***************************************************************************)
(* Decimal numbers: parsing, printing, comparing.                          *)
(***************************************************************************)
RECURSIVE Pow10(_)
Pow10(k) == IF k = 0 THEN 1 ELSE 10 * Pow10(k - 1)

RECURSIVE DigitsVal(_)
DigitsVal(s) ==
    IF s = <<>> THEN 0
    ELSE 10 * DigitsVal(SubSeq(s, 1, Len(s) - 1)) + (IndexIn(s[Len(s)], Digits) - 1)

RECURSIVE Lowest(_, _)
Lowest(m, e) == IF e > 0 /\ m % 10 = 0 THEN Lowest(m \div 10, e - 1) ELSE Num(m, e)

\* The float the text denotes, NaN when it denotes none: surrounding
\* whitespace skipped, an optional sign, digits with at most one point and at
\* least one digit.
ParseFloat(s) ==
    LET t == str_strip(s)
        signed == t # <<>> /\ t[1] \in {"-", "+"}
        body == IF signed THEN Tail(t) ELSE t
        points == {i \in 1..Len(body) : body[i] = "."}
        wellFormed ==
            /\ \A i \in 1..Len(body) : IsDigit(body[i]) \/ body[i] = "."
            /\ Cardinality(points) <= 1
            /\ \E i \in 1..Len(body) : IsDigit(body[i])
        digits == SelectSeq(body, IsDigit)
        frac == IF points = {} THEN 0 ELSE Len(body) - (CHOOSE i \in points : TRUE)
        mag == DigitsVal(digits)
    IN  IF ~wellFormed THEN NaN
        ELSE Lowest(IF signed /\ t[1] = "-" THEN 0 - mag ELSE mag, frac)

RECURSIVE NatDigits(_)
NatDigits(n) ==
    IF n < 10 THEN <<Digits[n + 1]>> ELSE NatDigits(n \div 10) \o <<Digits[(n % 10) + 1]>>

RECURSIVE ZeroPad(_, _)
ZeroPad(s, k) == IF Len(s) >= k THEN s ELSE ZeroPad(<<"0">> \o s, k)

\* str(x) of a cell that is text or a number
PyStr(v) ==
    IF v.t = "str" THEN v.s
    ELSE LET a == IF v.m < 0 THEN 0 - v.m ELSE v.m
             sign == IF v.m < 0 THEN <<"-">> ELSE <<>>
             whole == NatDigits(a \div Pow10(v.e))
         IN  IF v.e = 0 THEN sign \o whole
             ELSE sign \o whole \o <<".">> \o ZeroPad(NatDigits(a % Pow10(v.e)), v.e)

\* k <= v and v <= k for a number v and an integer k
GeqInt(v, k) == v.m >= k * Pow10(v.e)
LeqInt(v, k) == v.m <= k * Pow10(v.e)

\* pd.to_numeric(column, errors='coerce') on one cell
to_numeric(v) ==
    CASE v.t = "num" -> v
      [] v.t = "str" -> ParseFloat(v.s)
      [] OTHER -> NaN

\* pd.to_datetime(column, errors='coerce', unit='D') on one cell: a number of
\* days since the epoch; a date stays as it is.
to_datetime(v) ==
    CASE v.t = "date" -> v
      [] v.t = "num" -> Date(v.m, v.e)
      [] v.t = "str" -> LET x == ParseFloat(v.s)
                        IN  IF x.t = "num" THEN Date(x.m, x.e) ELSE NaN
      [] OTHER -> NaN

(***************************************************************************)
(* The text literals of the source.                                        *)
(***************************************************************************)
T_women == <<"w","o","m","e","n">>
T_w == <<"w">>
T_female == <<"f","e","m","a","l","e">>
T_men == <<"m","e","n">>
T_m == <<"m">>
T_male == <<"m","a","l","e">>
T_one == <<"o","n","e">>
T_two == <<"t","w","o">>
T_three == <<"t","h","r","e","e">>
T_One == <<"O","n","e">>
T_Two == <<"T","w","o">>
T_Three == <<"T","h","r","e","e">>
T_Female == <<"F","e","m","a","l","e">>
T_Male == <<"M","a","l","e">>
T_Teenager == <<"T","e","e","n","a","g","e","r">>
T_Adult == <<"A","d","u","l","t">>
T_Senior == <<"S","e","n","i","o","r">>
T_Other == <<"O","t","h","e","r">>

(***************************************************************************)
(* clean_data, cell by cell.                                               *)
(***************************************************************************)
\* clean_gender without the strip() of line 34
clean_gender_nostrip(gender) ==
    IF isna(gender) THEN NaN
    ELSE LET g == str_lower(PyStr(gender))
         IN  IF g \in {T_women, T_w, T_female} THEN Str(T_Female)
             ELSE IF g \in {T_men, T_m, T_male} THEN Str(T_Male)
             ELSE NaN

clean_gender(gender) ==
    IF isna(gender) THEN NaN
    ELSE LET g == str_lower(str_strip(PyStr(gender)))
         IN  IF g \in {T_women, T_w, T_female} THEN Str(T_Female)
             ELSE IF g \in {T_men, T_m, T_male} THEN Str(T_Male)
             ELSE NaN

qty_map ==
    [k \in {T_one, T_two, T_three, T_One, T_Two, T_Three} |->
        IF k \in {T_one, T_One} THEN Num(1, 0)
        ELSE IF k \in {T_two, T_Two} THEN Num(2, 0)
        ELSE Num(3, 0)]

\* the lambda of line 46 looking the text up as written, without lower()
qty_words_nolower(x) ==
    IF x.t = "str"
    THEN (IF PyStr(x) \in DOMAIN qty_map THEN qty_map[PyStr(x)] ELSE x)
    ELSE x

\* the lambda of line 46: qty_map.get(str(x).lower(), x) if isinstance(x, str) else x
qty_words(x) ==
    IF x.t = "str"
    THEN (LET k == str_lower(PyStr(x)) IN IF k \in DOMAIN qty_map THEN qty_map[k] ELSE x)
    ELSE x

\* lines 46-47 on one cell
clean_qty(x) == to_numeric(qty_words(x))

\* line 50 on one cell, without the replace('', np.nan)
clean_channel_noreplace(v) ==
    IF v.t = "str" THEN Str(str_title(str_strip(v.s))) ELSE NaN

\* line 50 on one cell of a column the .str accessor accepts: a cell that is
\* not text becomes NaN, text is stripped and title-cased, '' becomes NaN
clean_channel(v) ==
    IF v.t = "str"
    THEN (LET s == str_title(str_strip(v.s)) IN IF s = <<>> THEN NaN ELSE Str(s))
    ELSE NaN

\* get_age_group with the bounds of the first bucket exclusive
get_age_group_exclusive(age) ==
    IF isna(age) THEN NaN
    ELSE IF GeqInt(age, 3) /\ age.m # 3 * Pow10(age.e)
            /\ LeqInt(age, 18) /\ age.m # 18 * Pow10(age.e) THEN Str(T_Teenager)
    ELSE IF GeqInt(age, 19) /\ LeqInt(age, 64) THEN Str(T_Adult)
    ELSE IF GeqInt(age, 65) THEN Str(T_Senior)
    ELSE Str(T_Other)

get_age_group(age) ==
    IF isna(age) THEN NaN
    ELSE IF GeqInt(age, 3) /\ LeqInt(age, 18) THEN Str(T_Teenager)
    ELSE IF GeqInt(age, 19) /\ LeqInt(age, 64) THEN Str(T_Adult)
    ELSE IF GeqInt(age, 65) THEN Str(T_Senior)
    ELSE Str(T_Other)

(***************************************************************************)
(* Tables.  A table has its column headers, its rows, and the dtype of its *)
(* Channel column, which decides whether the .str accessor exists.         *)
(***************************************************************************)
Row(g, q, c, a, d, m, st) ==
    [Gender |-> g, Qty |-> q, Channel |-> c, Age |-> a, Date |-> d, Amount |-> m,
     Status |-> st, AgeGroup |-> Absent]

MapRows(t, F(_)) == [t EXCEPT !.rows = Tuple([i \in 1..Len(t.rows) |-> F(t.rows[i])])]

\* pd.read_excel: a column holding text is an object column, a column of
\* numbers and blanks only is a float column
read_excel(sheet) ==
    [cols |-> sheet.cols, rows |-> sheet.rows,
     chDtype |-> IF sheet.rows = <<>> \/ \E i \in 1..Len(sheet.rows) : sheet.rows[i].Channel.t = "str"
                 THEN "object" ELSE "float64"]

load_data(f) ==
    CASE f.status = "ok" ->
            [df |-> read_excel(f.sheet), printed |-> <<"Data loaded successfully.">>]
      [] f.status = "notfound" ->
            [df |-> None, printed |-> <<"Error: File not found.">>]
      [] OTHER ->
            [df |-> None, printed |-> <<"Error loading data">>]

\* line 29
rename_columns(t) ==
    [t EXCEPT !.cols = {IF c = "Channel " THEN "Channel" ELSE c : c \in t.cols}]

GenderCell(r) == [r EXCEPT !.Gender = clean_gender(r.Gender)]
QtyCell(r) == [r EXCEPT !.Qty = clean_qty(r.Qty)]
ChannelCell(r) == [r EXCEPT !.Channel = clean_channel(r.Channel)]
AgeCell(r) == [r EXCEPT !.Age = to_numeric(r.Age)]
DateCell(r) == [r EXCEPT !.Date = to_datetime(r.Date)]
AmountCell(r) == [r EXCEPT !.Amount = to_numeric(r.Amount)]
AgeGroupCell(r) == [r EXCEPT !.AgeGroup = get_age_group(r.Age)]

\* line 42 dropping the rows whose gender is not recognised
gender_column_dropna(t) ==
    [t EXCEPT !.rows = SelectSeq(MapRows(t, GenderCell).rows, LAMBDA r : ~isna(r.Gender))]

\* line 42
gender_column(t) == MapRows(t, GenderCell)

\* lines 46-47
qty_column(t) == MapRows(t, QtyCell)

\* df['Channel'].str of line 50 raises KeyError without the column and
\* AttributeError on a column that is not an object column
channel_raises(t) == "Channel" \notin t.cols \/ t.chDtype # "object"

\* line 50; replace() that found a '' lets the column be inferred again, and
\* where the build downcasts an all-NaN object column becomes a float column
channel_column(t, downcast) ==
    LET stripped == [i \in 1..Len(t.rows) |-> clean_channel_noreplace(t.rows[i].Channel)]
        found == \E i \in 1..Len(t.rows) : stripped[i] = Str(<<>>)
        cleaned == MapRows(t, ChannelCell)
        allNaN == \A i \in 1..Len(t.rows) : isna(cleaned.rows[i].Channel)
    IN  [cleaned EXCEPT !.chDtype = IF downcast /\ found /\ allNaN THEN "float64" ELSE "object"]

\* lines 53-55
age_column(t) == MapRows(t, AgeCell)
date_column(t) == MapRows(t, DateCell)
amount_column(t) == MapRows(t, AmountCell)

\* line 70
age_group_column(t) ==
    [MapRows(t, AgeGroupCell) EXCEPT !.cols = t.cols \union {"Age Group"}]

\* clean_data without the guard of lines 25-27: None has no rename
clean_data_unguarded(t, downcast) ==
    IF t = None
    THEN [df |-> None, raised |-> TRUE, printed |-> <<>>]
    ELSE LET a == qty_column(gender_column(rename_columns(t)))
         IN  IF channel_raises(a)
             THEN [df |-> a, raised |-> TRUE, printed |-> <<>>]
             ELSE [df |-> age_group_column(amount_column(date_column(age_column(
                              channel_column(a, downcast))))),
                   raised |-> FALSE,
                   printed |-> <<"Dataset Info After Cleaning:">>]

\* clean_data works in place: when line 50 raises, the table keeps what
\* lines 29-47 did to it
clean_data(t, downcast) ==
    IF t = None
    THEN [df |-> None, raised |-> FALSE, printed |-> <<"Error: No data to clean.">>]
    ELSE LET a == qty_column(gender_column(rename_columns(t)))
         IN  IF channel_raises(a)
             THEN [df |-> a, raised |-> TRUE, printed |-> <<>>]
             ELSE [df |-> age_group_column(amount_column(date_column(age_column(
                              channel_column(a, downcast))))),
                   raised |-> FALSE,
                   printed |-> <<"Dataset Info After Cleaning:">>]

\* df is None or df.empty
no_data(t) == t = None \/ t.rows = <<>>

\* The three tests are calls into scipy; the model keeps that each one is
\* started (lines 84, 105, 125), not its statistic.
hypothesis_testing(t) ==
    IF no_data(t)
    THEN [printed |-> <<"Error: No data for hypothesis testing.">>, tests |-> <<>>]
    ELSE [printed |-> <<"=== Hypothesis Testing ===">>,
          tests |-> <<"Test 1", "Test 2", "Test 3">>]

\* The five figures are calls into matplotlib; the model keeps their titles.
visualize_data(t) ==
    IF no_data(t)
    THEN [printed |-> <<"Error: No data for visualization.">>, shown |-> <<>>]
    ELSE [printed |-> <<>>,
          shown |-> <<"Top 10 Ship States by Sales Amount",
                      "Sales Distribution by Gender",
                      "Sales Distribution by Product Category",
                      "Order Volume by Sales Channel",
                      "Order Status Breakdown">>]

Completed == "Data cleaning, hypothesis testing, and visualizations completed successfully."

(***************************************************************************)
(* Raw cells, one column step at a time.  A text cell is a token written   *)
(* in one of three casings between two runs of whitespace; the token, kept *)
(* beside the cell, says what the text is: its lower-case and title-case   *)
(* spellings and the number it denotes, written out by hand.               *)
(***************************************************************************)
Tokens == {
    [kind |-> "word", lower |-> <<"w","o","m","e","n">>,
     title |-> <<"W","o","m","e","n">>,
     upper |-> <<"W","O","M","E","N">>, val |-> NaN],
    [kind |-> "word", lower |-> <<"w">>,
     title |-> <<"W">>,
     upper |-> <<"W">>, val |-> NaN],
    [kind |-> "word", lower |-> <<"f","e","m","a","l","e">>,
     title |-> <<"F","e","m","a","l","e">>,
     upper |-> <<"F","E","M","A","L","E">>, val |-> NaN],
    [kind |-> "word", lower |-> <<"m","e","n">>,
     title |-> <<"M","e","n">>,
     upper |-> <<"M","E","N">>, val |-> NaN],
    [kind |-> "word", lower |-> <<"m">>,
     title |-> <<"M">>,
     upper |-> <<"M">>, val |-> NaN],
    [kind |-> "word", lower |-> <<"m","a","l","e">>,
     title |-> <<"M","a","l","e">>,
     upper |-> <<"M","A","L","E">>, val |-> NaN],
    [kind |-> "word", lower |-> <<"o","n","e">>,
     title |-> <<"O","n","e">>,
     upper |-> <<"O","N","E">>, val |-> NaN],
    [kind |-> "word", lower |-> <<"t","w","o">>,
     title |-> <<"T","w","o">>,
     upper |-> <<"T","W","O">>, val |-> NaN],
    [kind |-> "word", lower |-> <<"t","h","r","e","e">>,
     title |-> <<"T","h","r","e","e">>,
     upper |-> <<"T","H","R","E","E">>, val |-> NaN],
    [kind |-> "word", lower |-> <<"w","o","m","a","n">>,
     title |-> <<"W","o","m","a","n">>,
     upper |-> <<"W","O","M","A","N">>, val |-> NaN],
    [kind |-> "word", lower |-> <<"b","a","n","a","n","a">>,
     title |-> <<"B","a","n","a","n","a">>,
     upper |-> <<"B","A","N","A","N","A">>, val |-> NaN],
    [kind |-> "word", lower |-> <<"a","m","a","z","o","n">>,
     title |-> <<"A","m","a","z","o","n">>,
     upper |-> <<"A","M","A","Z","O","N">>, val |-> NaN],
    [kind |-> "word", lower |-> <<"m","y","n","t","r","a">>,
     title |-> <<"M","y","n","t","r","a">>,
     upper |-> <<"M","Y","N","T","R","A">>, val |-> NaN],
    [kind |-> "word", lower |-> <<"m","y"," ","s","t","o","r","e">>,
     title |-> <<"M","y"," ","S","t","o","r","e">>,
     upper |-> <<"M","Y"," ","S","T","O","R","E">>, val |-> NaN],
    [kind |-> "word", lower |-> <<"3","x","l">>,
     title |-> <<"3","X","l">>,
     upper |-> <<"3","X","L">>, val |-> NaN],
    [kind |-> "word", lower |-> <<>>,
     title |-> <<>>,
     upper |-> <<>>, val |-> NaN],
    [kind |-> "literal", lower |-> <<"2">>,
     title |-> <<"2">>,
     upper |-> <<"2">>, val |-> Num(2, 0)],
    [kind |-> "literal", lower |-> <<"4","5">>,
     title |-> <<"4","5">>,
     upper |-> <<"4","5">>, val |-> Num(45, 0)],
    [kind |-> "literal", lower |-> <<"2","5","0",".","5">>,
     title |-> <<"2","5","0",".","5">>,
     upper |-> <<"2","5","0",".","5">>, val |-> Num(2505, 1)],
    [kind |-> "literal", lower |-> <<"1","8",".","5">>,
     title |-> <<"1","8",".","5">>,
     upper |-> <<"1","8",".","5">>, val |-> Num(185, 1)],
    [kind |-> "literal", lower |-> <<"-","1">>,
     title |-> <<"-","1">>,
     upper |-> <<"-","1">>, val |-> Num(0 - 1, 0)]}

Casings == {"lower", "title", "upper"}

Spelling(tok, casing) ==
    CASE casing = "lower" -> tok.lower
      [] casing = "title" -> tok.title
      [] OTHER -> tok.upper

Pads == UNION {[1..n -> {" ", "\t"}] : n \in 0..MaxPad}

Numbers ==
    {Num(n, 0) : n \in {0 - 1, 0, 1, 2, 3, 10, 18, 19, 30, 64, 65, 70}}
        \union {Num(25, 1), Num(185, 1), Num(645, 1), Num(2505, 1)}

NumberTok(v) == [kind |-> "num", lower |-> <<>>, title |-> <<>>, upper |-> <<>>, val |-> v]
BlankTok == [kind |-> "nan", lower |-> <<>>, title |-> <<>>, upper |-> <<>>, val |-> NaN]
NoTok == [kind |-> "none", lower |-> <<>>, title |-> <<>>, upper |-> <<>>, val |-> NaN]

NoFile == [status |-> "none", sheet |-> [cols |-> {}, rows |-> <<>>]]

PipelineIdle ==
    /\ pc = "cell"
    /\ file = NoFile
    /\ replaceDowncasts = FALSE
    /\ df = None
    /\ out = <<>>
    /\ testsRun = <<>>
    /\ charts = <<>>
    /\ snapshot = None

pipelineVars == <<pc, file, replaceDowncasts, df, out, testsRun, charts, snapshot>>
cellVars == <<arg, argTok, argPadded, fn, res, grp>>

InitCell ==
    /\ PipelineIdle
    /\ fn = "none"
    /\ res = Absent
    /\ grp = Absent
    /\ \/ \E tok \in Tokens, casing \in Casings, l \in Pads, r \in Pads :
            /\ arg = Str(l \o Spelling(tok, casing) \o r)
            /\ argTok = tok
            /\ argPadded = (l # <<>> \/ r # <<>>)
       \/ \E v \in Numbers :
            /\ arg = v
            /\ argTok = NumberTok(v)
            /\ argPadded = FALSE
       \/ /\ arg = NaN
          /\ argTok = BlankTok
          /\ argPadded = FALSE

\* line 42 on one cell
ApplyGender ==
    /\ pc = "cell" /\ fn = "none"
    /\ fn' = "Gender"
    /\ res' = clean_gender(arg)
    /\ UNCHANGED <<arg, argTok, argPadded, grp>>
    /\ UNCHANGED pipelineVars

\* lines 46-47 on one cell
ApplyQty ==
    /\ pc = "cell" /\ fn = "none"
    /\ fn' = "Qty"
    /\ res' = clean_qty(arg)
    /\ UNCHANGED <<arg, argTok, argPadded, grp>>
    /\ UNCHANGED pipelineVars

\* line 50 on one cell
ApplyChannel ==
    /\ pc = "cell" /\ fn = "none"
    /\ fn' = "Channel"
    /\ res' = clean_channel(arg)
    /\ UNCHANGED <<arg, argTok, argPadded, grp>>
    /\ UNCHANGED pipelineVars

\* lines 53 and 70 on one cell
ApplyAge ==
    /\ pc = "cell" /\ fn = "none"
    /\ fn' = "Age"
    /\ res' = to_numeric(arg)
    /\ grp' = get_age_group(to_numeric(arg))
    /\ UNCHANGED <<arg, argTok, argPadded>>
    /\ UNCHANGED pipelineVars

\* line 54 on one cell
ApplyDate ==
    /\ pc = "cell" /\ fn = "none"
    /\ fn' = "Date"
    /\ res' = to_datetime(arg)
    /\ UNCHANGED <<arg, argTok, argPadded, grp>>
    /\ UNCHANGED pipelineVars

\* line 55 on one cell
ApplyAmount ==
    /\ pc = "cell" /\ fn = "none"
    /\ fn' = "Amount"
    /\ res' = to_numeric(arg)
    /\ UNCHANGED <<arg, argTok, argPadded, grp>>
    /\ UNCHANGED pipelineVars

NextCell ==
    \/ ApplyGender
    \/ ApplyQty
    \/ ApplyChannel
    \/ ApplyAge
    \/ ApplyDate
    \/ ApplyAmount

SpecCell == InitCell /\ [][NextCell]_vars

(***************************************************************************)
(* Sheets: rows that differ from one base row in one column.               *)
(***************************************************************************)
Base_g == Str(<<"W">>)
Base_q == Str(<<"O","n","e">>)
Base_c == Str(<<" ","m","y","n","t","r","a"," ">>)
Base_a == Str(<<"4","5">>)
Base_d == Num(44197, 0)
Base_m == Str(<<"2","5","0",".","5">>)
Base_st == Str(<<"D","e","l","i","v","e","r","e","d">>)

BaseRow == Row(Base_g, Base_q, Base_c, Base_a, Base_d, Base_m, Base_st)

RawRows ==
    {BaseRow}
    \union {[BaseRow EXCEPT !.Gender = v] : v \in {Str(<<" ","m","a","l","e">>),
            Str(<<"x">>),
            NaN}}
    \union {[BaseRow EXCEPT !.Qty = v] : v \in {Num(2, 0),
            Str(<<"b","a","n","a","n","a">>),
            NaN}}
    \union {[BaseRow EXCEPT !.Channel = v] : v \in {Str(<<>>),
            Str(<<" ">>),
            Num(5, 0),
            NaN,
            Str(<<"A","m","a","z","o","n">>)}}
    \union {[BaseRow EXCEPT !.Age = v] : v \in {Num(185, 1),
            Str(<<"x">>),
            NaN,
            Num(70, 0)}}
    \union {[BaseRow EXCEPT !.Date = v] : v \in {Str(<<"x">>),
            NaN}}
    \union {[BaseRow EXCEPT !.Amount = v] : v \in {Num(100, 0),
            Str(<<"x">>)}}
    \union {[BaseRow EXCEPT !.Status = v] : v \in {Str(<<"C","a","n","c","e","l","l","e","d">>)}}

Headers(h) == {"Gender", "Qty", h, "Age", "Date", "Amount", "Status"}

Sheets ==
    {[cols |-> Headers(h), rows |-> rows] :
        h \in {"Channel ", "Channel"}, rows \in UNION {[1..n -> RawRows] : n \in 0..MaxRows}}

Files ==
    {[status |-> st, sheet |-> NoFile.sheet] : st \in {"notfound", "unreadable"}}
        \union {[status |-> "ok", sheet |-> sh] : sh \in Sheets}

CellIdle ==
    /\ arg = NaN
    /\ argTok = NoTok
    /\ argPadded = FALSE
    /\ fn = "none"
    /\ res = Absent
    /\ grp = Absent

Init ==
    /\ pc = "start"
    /\ file \in Files
    /\ replaceDowncasts \in BOOLEAN
    /\ df = None
    /\ out = <<>>
    /\ testsRun = <<>>
    /\ charts = <<>>
    /\ snapshot = None
    /\ CellIdle

(***************************************************************************)
(* main(), one call at a time.                                             *)
(***************************************************************************)
\* line 204
CallLoadData ==
    /\ pc = "start"
    /\ \E r \in {load_data(file)} :
           /\ df' = r.df
           /\ out' = out \o r.printed
    /\ pc' = "loaded"
    /\ UNCHANGED <<file, replaceDowncasts, testsRun, charts, snapshot>>
    /\ UNCHANGED cellVars

\* line 206; an exception leaves main()
CallCleanData ==
    /\ pc = "loaded"
    /\ \E r \in {clean_data(df, replaceDowncasts)} :
           /\ df' = r.df
           /\ out' = out \o r.printed
           /\ pc' = IF r.raised THEN "crashed" ELSE "cleaned"
    /\ UNCHANGED <<file, replaceDowncasts, testsRun, charts, snapshot>>
    /\ UNCHANGED cellVars

\* line 208
CallHypothesisTesting ==
    /\ pc = "cleaned"
    /\ \E r \in {hypothesis_testing(df)} :
           /\ out' = out \o r.printed
           /\ testsRun' = r.tests
    /\ pc' = "tested"
    /\ UNCHANGED <<file, replaceDowncasts, df, charts, snapshot>>
    /\ UNCHANGED cellVars

\* line 210
CallVisualizeData ==
    /\ pc = "tested"
    /\ \E r \in {visualize_data(df)} :
           /\ out' = out \o r.printed
           /\ charts' = r.shown
    /\ pc' = "visualized"
    /\ UNCHANGED <<file, replaceDowncasts, df, testsRun, snapshot>>
    /\ UNCHANGED cellVars

\* line 212
PrintCompleted ==
    /\ pc = "visualized"
    /\ out' = Append(out, Completed)
    /\ pc' = "done"
    /\ UNCHANGED <<file, replaceDowncasts, df, testsRun, charts, snapshot>>
    /\ UNCHANGED cellVars

Next ==
    \/ CallLoadData
    \/ CallCleanData
    \/ CallHypothesisTesting
    \/ CallVisualizeData
    \/ PrintCompleted

Spec == Init /\ [][Next]_vars

(***************************************************************************)
(* clean_data applied to the table clean_data returned.                    *)
(***************************************************************************)
CleanAgain ==
    /\ pc = "cleaned"
    /\ snapshot' = df
    /\ \E r \in {clean_data(df, replaceDowncasts)} :
           /\ df' = r.df
           /\ out' = out \o r.printed
           /\ pc' = IF r.raised THEN "recrashed" ELSE "recleaned"
    /\ UNCHANGED <<file, replaceDowncasts, testsRun, charts>>
    /\ UNCHANGED cellVars

NextTwice ==
    \/ CallLoadData
    \/ CallCleanData
    \/ CleanAgain

SpecTwice == Init /\ [][NextTwice]_vars

(***************************************************************************)
(* The properties.                                                         *)
(***************************************************************************)
Lines == {out[i] : i \in 1..Len(out)}
IsText == argTok.kind \in {"word", "literal"}

\* C1: clean_gender returns 'Female' exactly for the texts that are women, w
\* or female once trimmed and case-folded, 'Male' exactly for men, m or male,
\* and the missing marker for every other cell, missing cells included; it
\* returns no fourth value.
C1_CleanGender ==
    fn = "Gender" =>
        /\ res \in {Str(T_Female), Str(T_Male), NaN}
        /\ (res = Str(T_Female)) <=> (IsText /\ argTok.lower \in {T_women, T_w, T_female})
        /\ (res = Str(T_Male)) <=> (IsText /\ argTok.lower \in {T_men, T_m, T_male})

C1_Witness ==
    /\ fn = "Gender"
    /\ argPadded
    /\ arg.s # argTok.lower
    /\ \E i \in 1..Len(arg.s) : arg.s[i] = "W"
    /\ argTok.lower = T_women
    /\ res = Str(T_Female)

\* C2: the quantity step maps the words one, two, three in any casing to 1,
\* 2, 3, leaves a number (or a text that parses as a number) as that number,
\* and maps every other cell to the missing marker.
C2_CleanQty ==
    fn = "Qty" =>
        /\ (argTok.kind = "word" /\ ~argPadded /\ argTok.lower = T_one) => res = Num(1, 0)
        /\ (argTok.kind = "word" /\ ~argPadded /\ argTok.lower = T_two) => res = Num(2, 0)
        /\ (argTok.kind = "word" /\ ~argPadded /\ argTok.lower = T_three) => res = Num(3, 0)
        /\ argTok.kind = "num" => res = arg
        /\ argTok.kind = "literal" => res = argTok.val
        /\ argTok.kind = "nan" => res = NaN
        /\ (argTok.kind = "word" /\ (argPadded \/ argTok.lower \notin {T_one, T_two, T_three}))
              => res = NaN

C2_Witness ==
    /\ fn = "Qty"
    /\ arg = Str(<<"T","W","O">>)
    /\ res = Num(2, 0)

\* C3: the channel step returns a text with the whitespace around it removed
\* and title-cased, and the missing marker when nothing is left after
\* trimming.
C3_CleanChannel ==
    (fn = "Channel" /\ IsText) =>
        res = IF argTok.lower = <<>> THEN NaN ELSE Str(argTok.title)

C3_Witness ==
    /\ fn = "Channel"
    /\ argPadded
    /\ arg.s[1] = " "
    /\ arg.s[Len(arg.s)] = " "
    /\ SubSeq(arg.s, 2, Len(arg.s) - 1) = <<"a","m","a","z","o","n">>
    /\ res = Str(<<"A","m","a","z","o","n">>)

\* C4: the cleaned Age is the number the cell holds or denotes, else
\* missing, and the Age Group is missing for a missing age, Teenager for
\* 3 <= age <= 18, Adult for 19 <= age <= 64, Senior for age >= 65 and Other
\* for every other age.
C4_AgeGroup ==
    fn = "Age" =>
        /\ res = IF argTok.kind \in {"num", "literal"} THEN argTok.val ELSE NaN
        /\ grp = CASE res.t = "nan" -> NaN
                   [] res.t = "num" /\ 3 * Pow10(res.e) <= res.m /\ res.m <= 18 * Pow10(res.e)
                        -> Str(T_Teenager)
                   [] res.t = "num" /\ 19 * Pow10(res.e) <= res.m /\ res.m <= 64 * Pow10(res.e)
                        -> Str(T_Adult)
                   [] res.t = "num" /\ 65 * Pow10(res.e) <= res.m
                        -> Str(T_Senior)
                   [] OTHER -> Str(T_Other)

C4_Witness ==
    /\ fn = "Age"
    /\ arg = Str(<<"4","5">>)
    /\ res = Num(45, 0)
    /\ grp = Str(T_Adult)

\* C5: clean_data applied to the table clean_data returned completes and
\* returns the same table.
C5_Idempotent ==
    /\ pc # "recrashed"
    /\ pc = "recleaned" => df = snapshot

\* C6 as stated: the cleaned table has the rows of the input, in order, and
\* its column headers are those of the input plus 'Age Group'.
C6_ColumnsOfInputPlusAgeGroup ==
    (file.status = "ok" /\ pc \in {"cleaned", "tested", "visualized", "done"}) =>
        /\ Len(df.rows) = Len(file.sheet.rows)
        /\ df.cols = file.sheet.cols \union {"Age Group"}

\* C6 as amended: the table has the rows of the input, in order, whatever
\* clean_data did, and when clean_data returns its column headers are those
\* of the input, 'Channel ' renamed to 'Channel', plus 'Age Group'.
C6_Shape ==
    (file.status = "ok" /\ pc # "start") =>
        /\ Len(df.rows) = Len(file.sheet.rows)
        /\ \A i \in 1..Len(df.rows) :
              /\ df.rows[i].Status = file.sheet.rows[i].Status
              /\ isna(df.rows[i].Gender) \/ ~isna(file.sheet.rows[i].Gender)
        /\ pc \in {"cleaned", "tested", "visualized", "done"} =>
              df.cols = ((file.sheet.cols \ {"Channel "}) \union {"Channel", "Age Group"})

C6_Witness ==
    /\ pc = "cleaned"
    /\ "Channel " \in file.sheet.cols
    /\ "Channel " \notin df.cols
    /\ Len(df.rows) = 2
    /\ isna(df.rows[1].Gender)
    /\ df.rows[2].Gender = Str(T_Female)
    /\ df.rows[1].Status # df.rows[2].Status

\* C7: clean_data never raises on the cells of a table: it returns, and every
\* cleaned cell is a value of its column's domain or the missing marker.
C7_NeverRaises ==
    /\ pc # "crashed"
    /\ (file.status = "ok" /\ pc \in {"cleaned", "tested", "visualized", "done"}) =>
          \A i \in 1..Len(df.rows) :
              /\ df.rows[i].Gender \in {Str(T_Female), Str(T_Male), NaN}
              /\ df.rows[i].Qty.t \in {"num", "nan"}
              /\ df.rows[i].Channel.t \in {"str", "nan"}
              /\ df.rows[i].Age.t \in {"num", "nan"}
              /\ df.rows[i].Date.t \in {"date", "nan"}
              /\ df.rows[i].Amount.t \in {"num", "nan"}

\* C8: when load_data fails the failure is reported, no later stage does any
\* work, and the run does not report successful completion.
C8_LoadFailureAborts ==
    (file.status # "ok" /\ pc # "start") =>
        /\ Lines \cap {"Error: File not found.", "Error loading data"} # {}
        /\ df = None
        /\ testsRun = <<>>
        /\ charts = <<>>
        /\ Completed \notin Lines

\* C9: a null table is a reported precondition failure at every stage:
\* clean_data(None) prints an error and returns None, hypothesis_testing and
\* visualize_data given a null or empty table print an error and run no test
\* and show no chart, and none of them raises.
C9_NullTableReported ==
    /\ file.status # "ok" => pc \notin {"crashed"}
    /\ (file.status # "ok" /\ pc \in {"cleaned", "tested", "visualized", "done"}) =>
          /\ df = None
          /\ "Error: No data to clean." \in Lines
          /\ "Dataset Info After Cleaning:" \notin Lines
    /\ (pc \in {"tested", "visualized", "done"} /\ (df = None \/ df.rows = <<>>)) =>
          /\ "Error: No data for hypothesis testing." \in Lines
          /\ testsRun = <<>>
    /\ (pc \in {"visualized", "done"} /\ (df = None \/ df.rows = <<>>)) =>
          /\ "Error: No data for visualization." \in Lines
          /\ charts = <<>>

C9_Witness ==
    /\ pc = "visualized"
    /\ file.status = "notfound"
    /\ df = None
    /\ out = <<"Error: File not found.", "Error: No data to clean.",
               "Error: No data for hypothesis testing.",
               "Error: No data for visualization.">>

\* C10: for a cleaned age that is a number, the Age Group is Other if and
\* only if the age is below 3.
C10_OtherOnlyBelowThree ==
    (fn = "Age" /\ res.t = "num") =>
        ((grp = Str(T_Other)) <=> (res.m < 3 * Pow10(res.e)))

====
